---- MODULE Spec2Model ----
(***************************************************************************)
(* Model of game-analyzer.py: the batch run of main() over a directory of  *)
(* PGN files with a Stockfish engine treated as an oracle.                  *)
(*                                                                          *)
(* Evaluations are kept in hundredths of a point (a centipawn score cp is   *)
(* the float cp / 100.0 of the program), so every value the program         *)
(* computes on the modelled inputs is an integer here.                      *)
(*                                                                          *)
(* The chess rules are outside the program: whether a position is           *)
(* game-over, whether board.san accepts a move and what the engine answers  *)
(* are inputs chosen at the call.  The record fields that only copy chess   *)
(* data (move, side, position_fen) are left out of the records.            *)
(***************************************************************************)
EXTENDS Integers, Sequences, FiniteSets, TLC

\* ---------------------------------------------------------------- bounds
MaxFiles == 2
MaxGamesPerFile == 2
\* positions (a starting position and one per mainline move) in the games of
\* the directory that load_pgn_files reads
MaxPositions == 4
\* the same for the runs of main() whose termination is checked
MaxFairPositions == 2
\* mainline length of the game handed to analyze_game on its own
MaxGameMoves == 3
\* length of the list handed to the report generators on their own
MaxList == 11
\* mainline length of the game whose evaluations are fixed ahead
MaxScriptMoves == 3

\* ------------------------------------------------------ program constants
MateBase == 1000
CentiPerPoint == 100
DefaultThreshold == 200
TopPrompts == 10

None == "None"

\* a command-line flag main has not read yet; once read it is "set" or "clear"
Unread == "unread"

\* ------------------------------------------------------------ input sets
\* --threshold values for analyze_game, in hundredths of a point
Thresholds == {0, DefaultThreshold}
\* what engine.analyse gives: a centipawn score, a mate score, an exception
Scores == {[kind |-> "cp", v |-> 100], [kind |-> "cp", v |-> 300],
           [kind |-> "mate", v |-> 1], [kind |-> "mate", v |-> -1],
           [kind |-> "error", v |-> 0]}
\* what engine.play gives: a move, or an exception
Plays == {"Nf3", "error"}
\* centipawn scores of a game whose evaluations are fixed ahead; as points
\* all but 4.6 are exact floats, and no difference with 4.6 falls on a
\* threshold or a bucket limit, so the integer comparisons are the float ones
ScriptScores == {0, 50, 100, 300, 450, 460, 600}

Abs(x) == IF x < 0 THEN -x ELSE x

VARIABLES
    pc,                 \* where the run is
    threshold,          \* args.threshold, kept as self.critical_threshold
    no_html, no_prompts,    \* args.no_html, args.no_prompts as main reads them
    engine,             \* self.engine: "none", "running", "quit"
    stop_calls,         \* number of calls of stop_engine
    exc,                \* the last exception raised out of a call
    positions_left,     \* positions the games still to be read may hold
    files_total, file_idx, game_count, games, failed_files,   \* load_pgn_files
    game, all_critical_moves,                                  \* analyze_multiple_games
    board_over, previous_eval, move_number, critical_moves,   \* analyze_game
    last_eval,          \* the last call of evaluate_position in this step
    last_best,          \* the last call of get_best_move in this step
    created,            \* every CriticalMove constructed, in creation order
    script,             \* the engine's answers fixed ahead for the game, or <<>>
    written, json_out, html_out, prompts_out, told_none        \* reports

vars == <<pc, threshold, no_html, no_prompts, engine, stop_calls, exc,
          positions_left, files_total, file_idx, game_count, games, failed_files,
          game, all_critical_moves,
          board_over, previous_eval, move_number, critical_moves,
          last_eval, last_best, created, script,
          written, json_out, html_out, prompts_out, told_none>>

argVars == <<threshold, no_html, no_prompts>>
loadVars == <<positions_left, files_total, file_idx, game_count, games, failed_files>>
gameVars == <<board_over, previous_eval, move_number, critical_moves>>
reportVars == <<written, json_out, html_out, prompts_out, told_none>>

NoCall == [called |-> FALSE]

\* ------------------------------------------------------- engine adapter
\* A call ends by returning a value or by raising an exception.
Return(v) == [raised |-> FALSE, value |-> v]
Raise(e) == [raised |-> TRUE, exc |-> e]

\* the mate branch of evaluate_position, in points
MateScore(mate_value) ==
    IF mate_value > 0 THEN MateBase + mate_value ELSE -MateBase - mate_value

\* evaluate_position without its except clause
evaluate_position_unguarded(score) ==
    IF score.kind = "error" THEN Raise("EngineError")
    ELSE IF score.kind = "mate" THEN Return(MateScore(score.v) * CentiPerPoint)
    ELSE Return(score.v)

\* evaluate_position: how the call ends for what engine.analyse gave; a
\* centipawn score cp is returned as cp / 100.0 points, that is cp hundredths
evaluate_position(score) ==
    IF score.kind = "error" THEN Return(0)
    ELSE IF score.kind = "mate" THEN Return(MateScore(score.v) * CentiPerPoint)
    ELSE Return(score.v)

\* get_best_move: how the call ends for what engine.play gave
get_best_move(play) == IF play = "error" THEN Return(None) ELSE Return(play)

\* ------------------------------------------------------------ move scanner
\* delta = abs(current_eval - previous_eval)
Delta(cur, prev) == Abs(cur - prev)

\* the threshold test with a strict comparison
IsCriticalStrict(delta, thr) == delta > thr

\* if delta >= self.critical_threshold
IsCritical(delta, thr) == delta >= thr

\* the evaluations without their is_game_over guard
ShouldEvaluateAlways(over) == TRUE

\* the guard of both evaluations of analyze_game
ShouldEvaluate(over) == ~over

\* the record built with eval_before taken after previous_eval was updated
CriticalMoveLate(gid, n, before, after, delta, best, comment) ==
    [game_id |-> gid, move_number |-> n, eval_before |-> after,
     eval_after |-> after, delta |-> delta, best_move |-> best,
     comment |-> comment]

CriticalMove(gid, n, before, after, delta, best, comment) ==
    [game_id |-> gid, move_number |-> n, eval_before |-> before,
     eval_after |-> after, delta |-> delta, best_move |-> best,
     comment |-> comment]

\* _generate_move_comment with strict comparisons of delta
generate_move_comment_strict(eval_before, eval_after, delta) ==
    IF eval_after > eval_before
    THEN IF delta > 5 * CentiPerPoint
         THEN "Lance excelente! Melhora significativamente a posição"
         ELSE IF delta > 3 * CentiPerPoint
         THEN "Bom lance tático que aumenta a vantagem"
         ELSE "Lance que melhora ligeiramente a posição"
    ELSE IF delta > 5 * CentiPerPoint
         THEN "Erro grave! Lance que compromete seriamente a posição"
         ELSE IF delta > 3 * CentiPerPoint
         THEN "Erro tático importante"
         ELSE "Imprecisão que piora a posição"

\* _generate_move_comment
generate_move_comment(eval_before, eval_after, delta) ==
    IF eval_after > eval_before
    THEN IF delta >= 5 * CentiPerPoint
         THEN "Lance excelente! Melhora significativamente a posição"
         ELSE IF delta >= 3 * CentiPerPoint
         THEN "Bom lance tático que aumenta a vantagem"
         ELSE "Lance que melhora ligeiramente a posição"
    ELSE IF delta >= 5 * CentiPerPoint
         THEN "Erro grave! Lance que compromete seriamente a posição"
         ELSE IF delta >= 3 * CentiPerPoint
         THEN "Erro tático importante"
         ELSE "Imprecisão que piora a posição"

\* whether a position is game-over, and what engine.analyse gives for the
\* position reached after n moves: free at the call, or, in a scripted game,
\* no position is game-over and the scores are the script's
OverChoices == IF script = <<>> THEN BOOLEAN ELSE {FALSE}
ScoreChoices(n) ==
    IF script = <<>> THEN Scores ELSE {[kind |-> "cp", v |-> script[n + 1]]}

\* a game of the list load_pgn_files returns: its mainline length and its id
Game(stem, n, len) == [id |-> <<stem, n>>, len |-> len]

NoGame == Game(0, 0, 0)

\* ------------------------------------------------------------------ Init
GameInit ==
    /\ board_over = FALSE /\ previous_eval = 0
    /\ move_number = 0 /\ critical_moves = <<>>
    /\ last_eval = NoCall /\ last_best = NoCall /\ created = <<>>

\* the engine answers whatever it likes at each call
Unscripted == script = <<>>

ReportInit ==
    /\ written = {} /\ json_out = <<>> /\ html_out = <<>> /\ prompts_out = <<>>
    /\ told_none = FALSE

\* main() after the analyzer is created, run with the default threshold on a
\* directory of at most n positions
MainInit(n) ==
    /\ pc = "start"
    /\ threshold = DefaultThreshold /\ no_html = Unread /\ no_prompts = Unread
    /\ engine = "none" /\ stop_calls = 0 /\ exc = "none"
    /\ positions_left = n
    /\ files_total = 0 /\ file_idx = 0 /\ game_count = 0 /\ games = <<>>
    /\ failed_files = {}
    /\ game = NoGame /\ all_critical_moves = <<>>
    /\ GameInit /\ Unscripted /\ ReportInit

Init == MainInit(MaxPositions)

FairInit == MainInit(MaxFairPositions)

\* --------------------------------------------------------- start_engine
StartEngineOk ==
    /\ pc = "start"
    /\ engine' = "running" /\ pc' = "list"
    /\ UNCHANGED <<script, argVars, stop_calls, exc, loadVars, game, all_critical_moves,
                   gameVars, last_eval, last_best, created, reportVars>>

StartEngineFails ==
    /\ pc = "start"
    /\ exc' = "EngineStartError" /\ pc' = "except"
    /\ UNCHANGED <<script, argVars, engine, stop_calls, loadVars, game, all_critical_moves,
                   gameVars, last_eval, last_best, created, reportVars>>

\* --------------------------------------------------------- load_pgn_files
ListFiles ==
    /\ pc = "list"
    /\ \E n \in 0..MaxFiles : files_total' = n
    /\ all_critical_moves' = <<>>
    /\ file_idx' = 0 /\ games' = <<>> /\ pc' = "load"
    /\ UNCHANGED <<script, argVars, engine, stop_calls, exc, positions_left, game_count,
                   failed_files, game,
                   gameVars, last_eval, last_best, created, reportVars>>

ListFilesRaises ==
    /\ pc = "list"
    /\ exc' = "OSError" /\ pc' = "except"
    /\ UNCHANGED <<script, argVars, engine, stop_calls, loadVars, game, all_critical_moves,
                   gameVars, last_eval, last_best, created, reportVars>>

OpenFile ==
    /\ pc = "load" /\ file_idx < files_total
    /\ file_idx' = file_idx + 1 /\ game_count' = 0 /\ pc' = "read"
    /\ UNCHANGED <<script, argVars, engine, stop_calls, exc, positions_left, files_total,
                   games, failed_files, game, all_critical_moves,
                   gameVars, last_eval, last_best, created, reportVars>>

OpenFileRaises ==
    /\ pc = "load" /\ file_idx < files_total
    /\ file_idx' = file_idx + 1
    /\ failed_files' = failed_files \cup {file_idx + 1}
    /\ pc' = "load"
    /\ UNCHANGED <<script, argVars, engine, stop_calls, exc, positions_left, files_total,
                   game_count, games, game, all_critical_moves,
                   gameVars, last_eval, last_best, created, reportVars>>

ReadGame ==
    /\ pc = "read" /\ game_count < MaxGamesPerFile
    /\ \E len \in 0..MaxGameMoves :
          /\ 1 + len <= positions_left
          /\ positions_left' = positions_left - (1 + len)
          /\ games' = Append(games, Game(file_idx, game_count + 1, len))
    /\ game_count' = game_count + 1
    /\ UNCHANGED <<script, pc, argVars, engine, stop_calls, exc, files_total, file_idx,
                   failed_files, game, all_critical_moves,
                   gameVars, last_eval, last_best, created, reportVars>>

ReadGameEof ==
    /\ pc = "read"
    /\ pc' = "load"
    /\ UNCHANGED <<script, argVars, engine, stop_calls, exc, loadVars,
                   game, all_critical_moves,
                   gameVars, last_eval, last_best, created, reportVars>>

ReadGameRaises ==
    /\ pc = "read"
    /\ failed_files' = failed_files \cup {file_idx}
    /\ pc' = "load"
    /\ UNCHANGED <<script, argVars, engine, stop_calls, exc, positions_left, files_total,
                   file_idx, game_count, games, game, all_critical_moves,
                   gameVars, last_eval, last_best, created, reportVars>>

LoadReturn ==
    /\ pc = "load" /\ file_idx = files_total
    /\ pc' = "games"
    \* the locals of load_pgn_files are gone, games is what it returns
    /\ files_total' = 0 /\ file_idx' = 0 /\ game_count' = 0 /\ failed_files' = {}
    /\ positions_left' = 0
    /\ UNCHANGED <<script, argVars, engine, stop_calls, exc, games, game, all_critical_moves,
                   gameVars, last_eval, last_best, created, reportVars>>

\* ------------------------------------------------- analyze_multiple_games
NextGame ==
    /\ pc = "games" /\ games # <<>>
    \* games holds what the loop has not reached yet
    /\ game' = Head(games) /\ games' = Tail(games) /\ pc' = "analyze_begin"
    /\ UNCHANGED <<script, argVars, engine, stop_calls, exc, positions_left, files_total,
                   file_idx, game_count, failed_files, all_critical_moves,
                   gameVars, last_eval, last_best, created, reportVars>>

\* analyze_game returned: the caller extends the cross-game list
ExtendResults ==
    /\ pc = "analyze_returned"
    /\ all_critical_moves' = all_critical_moves \o critical_moves
    /\ pc' = "games"
    /\ board_over' = FALSE /\ previous_eval' = 0
    /\ move_number' = 0 /\ critical_moves' = <<>>
    /\ last_eval' = NoCall /\ last_best' = NoCall /\ game' = NoGame
    /\ UNCHANGED <<script, argVars, engine, stop_calls, exc, loadVars, created, reportVars>>

\* analyze_game raised: the error is logged and the loop goes on
SkipGame ==
    /\ pc = "analyze_raised"
    /\ pc' = "games" /\ exc' = "none"
    /\ board_over' = FALSE /\ previous_eval' = 0
    /\ move_number' = 0 /\ critical_moves' = <<>>
    /\ last_eval' = NoCall /\ last_best' = NoCall /\ game' = NoGame
    /\ UNCHANGED <<script, argVars, engine, stop_calls, loadVars, all_critical_moves,
                   created, reportVars>>

BatchReturn ==
    /\ pc = "games" /\ games = <<>>
    /\ pc' = "check"
    /\ UNCHANGED <<script, argVars, engine, stop_calls, exc, loadVars, game,
                   all_critical_moves, gameVars,
                   last_eval, last_best, created, reportVars>>

\* ------------------------------------------------------------ analyze_game
\* up to the evaluation of the starting position
AnalyzeBegin ==
    /\ pc = "analyze_begin"
    /\ \E over \in OverChoices, score \in ScoreChoices(0) :
          LET out == evaluate_position(score) IN
          /\ board_over' = over
          /\ IF ShouldEvaluate(over)
             THEN /\ last_eval' = [called |-> TRUE, over |-> over, score |-> score,
                                   out |-> out]
                  /\ IF out.raised
                     THEN /\ pc' = "analyze_raised" /\ exc' = out.exc
                          /\ previous_eval' = 0
                     ELSE /\ pc' = "analyze_loop" /\ exc' = exc
                          /\ previous_eval' = out.value
             ELSE /\ last_eval' = NoCall /\ pc' = "analyze_loop" /\ exc' = exc
                  /\ previous_eval' = 0
    /\ move_number' = 0 /\ critical_moves' = <<>>
    /\ last_best' = NoCall
    /\ UNCHANGED <<script, argVars, engine, stop_calls, loadVars, game,
                   all_critical_moves, created, reportVars>>

\* one pass of the loop over the mainline whose move board.san rejects
AnalyzeMoveIllegal ==
    /\ pc = "analyze_loop" /\ move_number < game.len
    /\ move_number' = move_number + 1
    /\ pc' = "analyze_raised" /\ exc' = "IllegalMove"
    /\ last_eval' = NoCall /\ last_best' = NoCall
    /\ UNCHANGED <<script, argVars, engine, stop_calls, loadVars, game,
                   all_critical_moves, board_over, previous_eval,
                   critical_moves, created, reportVars>>

\* one pass of the loop over the mainline
AnalyzeMove ==
    /\ pc = "analyze_loop" /\ move_number < game.len
    /\ move_number' = move_number + 1
    /\ \E over \in OverChoices,
          score \in ScoreChoices(move_number + 1), play \in Plays :
          LET out == evaluate_position(score)
              delta == Delta(out.value, previous_eval)
              best == get_best_move(play)
              rec == CriticalMove(game.id, move_number + 1, previous_eval,
                                  out.value, delta, best.value,
                                  generate_move_comment(previous_eval,
                                                        out.value, delta))
          IN
          /\ board_over' = over
          /\ IF ~ShouldEvaluate(over)
             THEN /\ last_eval' = NoCall /\ last_best' = NoCall
                  /\ UNCHANGED <<pc, exc, previous_eval, critical_moves, created>>
             ELSE /\ last_eval' = [called |-> TRUE, over |-> over, score |-> score,
                                   out |-> out]
                  /\ IF out.raised
                     THEN /\ pc' = "analyze_raised" /\ exc' = out.exc
                          /\ last_best' = NoCall
                          /\ UNCHANGED <<previous_eval, critical_moves, created>>
                     ELSE IF ~IsCritical(delta, threshold)
                     THEN /\ last_best' = NoCall
                          /\ previous_eval' = out.value
                          /\ UNCHANGED <<pc, exc, critical_moves, created>>
                     ELSE /\ last_best' = [called |-> TRUE, play |-> play, out |-> best]
                          /\ IF best.raised
                             THEN /\ pc' = "analyze_raised" /\ exc' = best.exc
                                  /\ UNCHANGED <<previous_eval, critical_moves, created>>
                             ELSE /\ critical_moves' = Append(critical_moves, rec)
                                  /\ created' = Append(created, rec)
                                  /\ previous_eval' = out.value
                                  /\ UNCHANGED <<pc, exc>>
    /\ UNCHANGED <<script, argVars, engine, stop_calls, loadVars, game,
                   all_critical_moves, reportVars>>

\* the mainline is exhausted: return critical_moves
AnalyzeReturn ==
    /\ pc = "analyze_loop" /\ move_number = game.len
    /\ pc' = "analyze_returned"
    /\ last_eval' = NoCall /\ last_best' = NoCall
    /\ UNCHANGED <<script, argVars, engine, stop_calls, exc, loadVars, game,
                   all_critical_moves, gameVars, created, reportVars>>

\* ------------------------------------------------------ report generators
Reverse(s) == [i \in 1..Len(s) |-> s[Len(s) + 1 - i]]

\* x put into the ascending list t behind every element whose delta is not larger
RECURSIVE InsertAsc(_, _)
InsertAsc(x, t) ==
    IF t = <<>> THEN <<x>>
    ELSE IF t[Len(t)].delta <= x.delta THEN Append(t, x)
    ELSE Append(InsertAsc(x, SubSeq(t, 1, Len(t) - 1)), t[Len(t)])

\* a stable ascending sort on delta
RECURSIVE StableSortAsc(_)
StableSortAsc(s) ==
    IF s = <<>> THEN <<>>
    ELSE InsertAsc(s[Len(s)], StableSortAsc(SubSeq(s, 1, Len(s) - 1)))

\* an ascending sort reversed afterwards, as sorted(...)[::-1] would be
SortedByDeltaUnstable(moves) == Reverse(StableSortAsc(moves))

\* sorted(moves, key=lambda x: x.delta, reverse=True): the list is reversed,
\* sorted stably in ascending order, and reversed again
SortedByDelta(moves) == Reverse(StableSortAsc(Reverse(moves)))

\* the slice [:n]
Take(s, n) == SubSeq(s, 1, IF Len(s) < n THEN Len(s) ELSE n)

\* the HTML report generated whatever --no-html says
WantsHtmlAlways(flag) == TRUE

WantsHtml(flag) == flag # "set"

WantsPrompts(flag) == flag # "set"

\* stop_engine called at the end of the try block instead of in finally
OnExitNoFinally(p) == IF p = "end" THEN "finally" ELSE "done"

\* where control goes when the try block of main is left from place p
OnExit(p) == "finally"

\* main: no critical move, the user is told and main returns
CheckNone ==
    /\ pc = "check" /\ all_critical_moves = <<>>
    /\ told_none' = TRUE /\ pc' = OnExit("return")
    /\ UNCHANGED <<script, argVars, engine, stop_calls, exc, loadVars, game,
                   all_critical_moves, gameVars, last_eval, last_best, created,
                   written, json_out, html_out, prompts_out>>

CheckSome ==
    /\ pc = "check" /\ all_critical_moves # <<>>
    /\ pc' = "json"
    /\ UNCHANGED <<script, argVars, engine, stop_calls, exc, loadVars, game,
                   all_critical_moves, gameVars, last_eval, last_best, created,
                   reportVars>>

SaveJson ==
    /\ pc = "json"
    /\ json_out' = all_critical_moves /\ written' = written \cup {"json"}
    /\ pc' = "html"
    /\ UNCHANGED <<script, argVars, engine, stop_calls, exc, loadVars, game,
                   all_critical_moves, gameVars, last_eval, last_best, created,
                   html_out, prompts_out, told_none>>

SaveJsonRaises ==
    /\ pc = "json"
    /\ exc' = "OSError" /\ pc' = "except"
    /\ UNCHANGED <<script, argVars, engine, stop_calls, loadVars, game,
                   all_critical_moves, gameVars, last_eval, last_best, created,
                   reportVars>>

\* if not args.no_html: generate_report
GenerateReport ==
    /\ pc = "html"
    /\ \E flag \in {"set", "clear"} :
          /\ WantsHtml(flag)
          /\ no_html' = flag
    /\ html_out' = SortedByDelta(all_critical_moves)
    /\ written' = written \cup {"html"}
    /\ pc' = "prompts"
    /\ UNCHANGED <<script, threshold, no_prompts, engine, stop_calls, exc, loadVars, game,
                   all_critical_moves, gameVars, last_eval, last_best, created,
                   json_out, prompts_out, told_none>>

GenerateReportRaises ==
    /\ pc = "html"
    /\ \E flag \in {"set", "clear"} :
          /\ WantsHtml(flag)
          /\ no_html' = flag
    /\ exc' = "OSError" /\ pc' = "except"
    /\ UNCHANGED <<script, threshold, no_prompts, engine, stop_calls, loadVars, game,
                   all_critical_moves, gameVars, last_eval, last_best, created,
                   reportVars>>

SkipReport ==
    /\ pc = "html"
    /\ \E flag \in {"set", "clear"} :
          /\ ~WantsHtml(flag)
          /\ no_html' = flag
    /\ pc' = "prompts"
    /\ UNCHANGED <<script, threshold, no_prompts, engine, stop_calls, exc, loadVars, game,
                   all_critical_moves, gameVars, last_eval, last_best, created,
                   reportVars>>

\* if not args.no_prompts: generate_chatgpt_prompts
GeneratePrompts ==
    /\ pc = "prompts"
    /\ \E flag \in {"set", "clear"} :
          /\ WantsPrompts(flag)
          /\ no_prompts' = flag
    /\ prompts_out' = Take(SortedByDelta(all_critical_moves), TopPrompts)
    /\ written' = written \cup {"prompts"}
    /\ pc' = OnExit("end")
    /\ UNCHANGED <<script, threshold, no_html, engine, stop_calls, exc, loadVars, game,
                   all_critical_moves, gameVars, last_eval, last_best, created,
                   json_out, html_out, told_none>>

GeneratePromptsRaises ==
    /\ pc = "prompts"
    /\ \E flag \in {"set", "clear"} :
          /\ WantsPrompts(flag)
          /\ no_prompts' = flag
    /\ exc' = "OSError" /\ pc' = "except"
    /\ UNCHANGED <<script, threshold, no_html, engine, stop_calls, loadVars, game,
                   all_critical_moves, gameVars, last_eval, last_best, created,
                   reportVars>>

SkipPrompts ==
    /\ pc = "prompts"
    /\ \E flag \in {"set", "clear"} :
          /\ ~WantsPrompts(flag)
          /\ no_prompts' = flag
    /\ pc' = OnExit("end")
    /\ UNCHANGED <<script, threshold, no_html, engine, stop_calls, exc, loadVars, game,
                   all_critical_moves, gameVars, last_eval, last_best, created,
                   reportVars>>

\* except Exception: the message is printed
HandleError ==
    /\ pc = "except"
    /\ pc' = OnExit("except")
    /\ UNCHANGED <<script, argVars, engine, stop_calls, exc, loadVars, game,
                   all_critical_moves, gameVars, last_eval, last_best, created,
                   reportVars>>

\* stop_engine: what becomes of self.engine
stop_engine(e) == IF e = "running" THEN "quit" ELSE e

\* finally: stop_engine is called
StopEngine ==
    /\ pc = "finally"
    /\ stop_calls' = stop_calls + 1
    /\ engine' = stop_engine(engine)
    /\ pc' = "done"
    /\ UNCHANGED <<script, argVars, exc, loadVars, game,
                   all_critical_moves, gameVars, last_eval, last_best, created,
                   reportVars>>

\* ------------------------------------------------------- specifications
Next ==
    \/ StartEngineOk \/ StartEngineFails
    \/ ListFiles \/ ListFilesRaises
    \/ OpenFile \/ OpenFileRaises \/ ReadGame \/ ReadGameEof \/ ReadGameRaises
    \/ LoadReturn
    \/ NextGame \/ ExtendResults \/ SkipGame \/ BatchReturn
    \/ AnalyzeBegin \/ AnalyzeMoveIllegal \/ AnalyzeMove \/ AnalyzeReturn
    \/ CheckNone \/ CheckSome \/ SaveJson \/ SaveJsonRaises
    \/ GenerateReport \/ GenerateReportRaises \/ SkipReport
    \/ GeneratePrompts \/ GeneratePromptsRaises \/ SkipPrompts
    \/ HandleError \/ StopEngine

\* the run of main()
Spec == Init /\ [][Next]_vars

\* main() is one sequential thread: while a step is left to do, it is done
FairSpec == FairInit /\ [][Next]_vars /\ WF_vars(Next)

\* analyze_game called on one game with a started engine
GameSpecInit ==
    /\ pc = "analyze_begin"
    /\ threshold \in Thresholds /\ no_html = Unread /\ no_prompts = Unread
    /\ engine = "running" /\ stop_calls = 0 /\ exc = "none"
    /\ positions_left = 0
    /\ files_total = 0 /\ file_idx = 0 /\ game_count = 0 /\ games = <<>>
    /\ failed_files = {}
    /\ \E len \in 0..MaxGameMoves : game = Game(1, 1, len)
    /\ all_critical_moves = <<>>
    /\ GameInit /\ Unscripted /\ ReportInit

GameNext == AnalyzeBegin \/ AnalyzeMoveIllegal \/ AnalyzeMove \/ AnalyzeReturn

GameSpec == GameSpecInit /\ [][GameNext]_vars

\* the lists of records handed to the report generators
RECURSIVE MoveLists(_)
MoveLists(n) ==
    IF n = 0 THEN {<<>>}
    ELSE LET shorter == MoveLists(n - 1) IN
         shorter \cup
         {Append(l, CriticalMove(<<1, 1>>, n, 0, d, d, None,
                                 generate_move_comment(0, d, d))) :
             l \in {m \in shorter : Len(m) = n - 1}, d \in {200, 300}}

\* generate_report and generate_chatgpt_prompts called on one list
ReportSpecInit ==
    /\ pc = "html"
    /\ threshold = DefaultThreshold /\ no_html = Unread /\ no_prompts = Unread
    /\ engine = "running" /\ stop_calls = 0 /\ exc = "none"
    /\ positions_left = 0
    /\ files_total = 0 /\ file_idx = 0 /\ game_count = 0 /\ games = <<>>
    /\ failed_files = {}
    /\ game = NoGame /\ all_critical_moves \in MoveLists(MaxList)
    /\ GameInit /\ Unscripted /\ ReportInit

ReportNext == GenerateReport \/ GeneratePrompts

ReportSpec == ReportSpecInit /\ [][ReportNext]_vars

\* the scripts of a game of at most n moves: one score for the starting
\* position and one per move
RECURSIVE Scripts(_)
Scripts(n) ==
    IF n = 0 THEN {<<v>> : v \in ScriptScores}
    ELSE LET shorter == Scripts(n - 1) IN
         shorter \cup
         {Append(l, v) : l \in {m \in shorter : Len(m) = n}, v \in ScriptScores}

\* analyze_game called on one game whose positions have known evaluations
ScriptSpecInit ==
    /\ pc = "analyze_begin"
    /\ threshold \in Thresholds /\ no_html = Unread /\ no_prompts = Unread
    /\ engine = "running" /\ stop_calls = 0 /\ exc = "none"
    /\ positions_left = 0
    /\ files_total = 0 /\ file_idx = 0 /\ game_count = 0 /\ games = <<>>
    /\ failed_files = {}
    /\ script \in Scripts(MaxScriptMoves)
    /\ game = Game(1, 1, Len(script) - 1)
    /\ all_critical_moves = <<>>
    /\ GameInit /\ ReportInit

ScriptSpec == ScriptSpecInit /\ [][GameNext]_vars

\* ================================================================ claims
Last(s) == s[Len(s)]

Sign(n) == IF n > 0 THEN 1 ELSE IF n < 0 THEN -1 ELSE 0

\* a pass of the loop of analyze_game that ran to its end
MovePlayed ==
    /\ pc = "analyze_loop" /\ pc' = "analyze_loop"
    /\ move_number' = move_number + 1

\* the move just played leads to a non-terminal position whose evaluation is
\* at least the threshold away from previous_eval
Qualifies ==
    /\ ~board_over'
    /\ last_eval'.called
    /\ Abs(last_eval'.out.value - previous_eval) >= threshold

\* C1: analyze_game records a move if and only if the position after it is
\* non-terminal and delta = |current_eval - previous_eval| >= critical_threshold
\* (a delta equal to the threshold is recorded, a smaller one is not); each
\* qualifying move adds exactly one record, for that move, at the end of the
\* list, so the records are in mainline order.
C1_RecordedIffCritical ==
    /\ [][MovePlayed =>
            IF Qualifies
            THEN /\ Len(critical_moves') = Len(critical_moves) + 1
                 /\ SubSeq(critical_moves', 1, Len(critical_moves)) = critical_moves
                 /\ Last(critical_moves').move_number = move_number'
                 /\ Last(critical_moves').delta
                        = Abs(last_eval'.out.value - previous_eval)
            ELSE critical_moves' = critical_moves]_vars
    /\ [](\A i, j \in 1..Len(critical_moves) :
             i < j => critical_moves[i].move_number < critical_moves[j].move_number)
    /\ [](\A i \in 1..Len(critical_moves) :
             critical_moves[i].delta >= threshold)

\* a game of three moves under the default threshold: the first is recorded with
\* a delta equal to the threshold, the second changes the evaluation and is not
\* recorded, the third is recorded with a larger delta
C1_Witness ==
    /\ pc = "analyze_returned" /\ threshold = DefaultThreshold
    /\ move_number = 3 /\ Len(critical_moves) = 2
    /\ critical_moves[1].move_number = 1 /\ critical_moves[1].delta = threshold
    /\ critical_moves[2].move_number = 3 /\ critical_moves[2].delta > threshold
    /\ critical_moves[2].eval_before # critical_moves[1].eval_after

\* C2: every record has delta = |eval_after - eval_before|, eval_before being
\* previous_eval when the move was played and eval_after the evaluation obtained
\* for the position after it; so has every record of the cross-game list.
C2_DeltaIsAbsDifference ==
    /\ [](\A r \in {critical_moves[i] : i \in 1..Len(critical_moves)}
                  \cup {all_critical_moves[i] : i \in 1..Len(all_critical_moves)} :
             r.delta = Abs(r.eval_after - r.eval_before))
    /\ [][Len(critical_moves') = Len(critical_moves) + 1 =>
            /\ Last(critical_moves').eval_before = previous_eval
            /\ last_eval'.called
            /\ Last(critical_moves').eval_after = last_eval'.out.value]_vars

\* the cross-game list holds records of two games, one of a falling evaluation
C2_Witness ==
    /\ pc = "check" /\ Len(all_critical_moves) = 2
    /\ all_critical_moves[1].game_id # all_critical_moves[2].game_id
    /\ all_critical_moves[2].eval_after < all_critical_moves[2].eval_before
    /\ all_critical_moves[2].delta > 0

\* C3: a terminal position is never passed to evaluate_position, the starting
\* position no more than a position reached by a move, and a move that leads to
\* a terminal position produces no record, whatever previous_eval and the
\* threshold are.
C3_TerminalNeverEvaluated ==
    /\ last_eval.called => ~last_eval.over
    /\ (board_over /\ pc \in {"analyze_loop", "analyze_returned"}) =>
           \A i \in 1..Len(critical_moves) :
               critical_moves[i].move_number # move_number

\* threshold 0: a recorded move, then a move into a terminal position that is
\* neither evaluated nor recorded
C3_Witness ==
    /\ pc = "analyze_loop" /\ threshold = 0
    /\ board_over /\ move_number = 2 /\ ~last_eval.called
    /\ Len(critical_moves) = 1 /\ previous_eval # 0

\* C4: for a forced mate in N, N # 0, evaluate_position returns
\* sign(N) * (1000 + |N|), so a magnitude of at least 1000.
C4_MateSentinel ==
    (last_eval.called /\ last_eval.score.kind = "mate") =>
        /\ last_eval.out.value
              = Sign(last_eval.score.v) * (MateBase + Abs(last_eval.score.v))
                    * CentiPerPoint
        /\ Abs(last_eval.out.value) >= MateBase * CentiPerPoint

\* C5: on every path of main stop_engine is eventually called, exactly once; an
\* engine that was started is quit, and when it was never started stop_engine
\* leaves it alone.
C5_EngineAlwaysStopped ==
    /\ [](stop_calls <= 1)
    /\ <>[](pc = "done" /\ stop_calls = 1)
    /\ [](pc = "done" =>
            /\ engine \in {"none", "quit"}
            /\ engine = "none" <=> exc = "EngineStartError")

\* main ended after a report generator raised: the engine is quit
C5_Witness ==
    /\ pc = "done" /\ stop_calls = 1 /\ engine = "quit"
    /\ exc = "OSError" /\ written = {"json"}

\* C6: an engine error never aborts a game scan: evaluate_position returns 0.0,
\* get_best_move returns an absent move, neither raises, the record of a move
\* whose best-move query failed is emitted with best_move absent, and
\* analyze_game returns only after the last move of the mainline.
C6_EngineErrorsAbsorbed ==
    /\ (last_eval.called /\ last_eval.score.kind = "error") =>
           (~last_eval.out.raised /\ last_eval.out.value = 0)
    /\ (last_best.called /\ last_best.play = "error") =>
           /\ ~last_best.out.raised /\ last_best.out.value = None
           /\ critical_moves # <<>>
           /\ Last(critical_moves).move_number = move_number
           /\ Last(critical_moves).best_move = None
    /\ pc = "analyze_raised" => exc = "IllegalMove"
    /\ pc = "analyze_returned" => move_number = game.len

\* both engine calls fail at the second move of three: the move is recorded
\* without a best move and the scan is still in its loop
C6_Witness ==
    /\ pc = "analyze_loop" /\ move_number = 2 /\ game.len = 3
    /\ last_eval.called /\ last_eval.score.kind = "error"
    /\ last_best.called /\ last_best.play = "error"
    /\ Len(critical_moves) = 2 /\ critical_moves[2].best_move = None

\* what load_pgn_files is about to return, every file of the directory done
LoadDone == pc = "load" /\ file_idx = files_total

\* C7: load_pgn_files skips a file that fails while it is read and goes on with
\* the other files: the failing file contributes no game to the returned list,
\* also when it fails after some of its games were read, and the games of a
\* file that loads are numbered <stem>_1 ... <stem>_k in in-file order.
C7_FailingFileContributesNothing ==
    LoadDone =>
        /\ \A i \in 1..Len(games) : games[i].id[1] \notin failed_files
        /\ \A i \in 1..Len(games) :
              games[i].id[2] =
                  Cardinality({j \in 1..i : games[j].id[1] = games[i].id[1]})
        /\ \A i, j \in 1..Len(games) : i < j => games[i].id[1] <= games[j].id[1]

\* C8: accumulation is append-only and survives failures: a game whose analysis
\* raises is skipped, the batch goes on, and every record created before the
\* failure, those created in the failing game included, is in the returned list
\* in creation order.
C8_NoRecordLost ==
    pc = "check" => all_critical_moves = created

\* main ran the batch to its end without an exception reaching it
BatchDone == pc = "done" /\ exc = "none"

Place(r) == CHOOSE i \in 1..Len(all_critical_moves) : all_critical_moves[i] = r

\* C10: the HTML report lists every move exactly once in non-increasing delta
\* order, moves of equal delta in their order of the input list, and the
\* prompt file holds the first min(10, n) moves of that ordering, so that no
\* move left out has a larger delta than a move included.
C10_ReportOrder ==
    /\ "html" \in written =>
          /\ Len(html_out) = Len(all_critical_moves)
          /\ \A i \in 1..Len(all_critical_moves) :
                Cardinality({j \in 1..Len(html_out) :
                                html_out[j] = all_critical_moves[i]}) = 1
          /\ \A j, k \in 1..Len(html_out) :
                j < k =>
                   /\ html_out[j].delta >= html_out[k].delta
                   /\ html_out[j].delta = html_out[k].delta =>
                          Place(html_out[j]) < Place(html_out[k])
    /\ ("html" \in written /\ "prompts" \in written) =>
          /\ Len(prompts_out) =
                 (IF Len(html_out) < TopPrompts THEN Len(html_out) ELSE TopPrompts)
          /\ \A j \in 1..Len(prompts_out) : prompts_out[j] = html_out[j]
          /\ \A j \in 1..Len(prompts_out) :
                \A k \in (Len(prompts_out) + 1)..Len(html_out) :
                    html_out[k].delta <= prompts_out[j].delta

\* eleven moves, the first of the list among the smaller ones: the reports
\* differ from the input order, ten moves are in the prompts and one is left out
C10_Witness ==
    /\ "html" \in written /\ "prompts" \in written
    /\ Len(all_critical_moves) = 11 /\ Len(prompts_out) = TopPrompts
    /\ all_critical_moves[1].delta < all_critical_moves[2].delta
    /\ all_critical_moves[2].delta = all_critical_moves[3].delta
    /\ html_out[1] = all_critical_moves[2]
    /\ html_out[11].delta < html_out[10].delta

\* the comments of a move that raises the evaluation and of one that does
\* not, from the largest bucket of delta to the smallest
ImprovementComments ==
    <<"Lance excelente! Melhora significativamente a posição",
      "Bom lance tático que aumenta a vantagem",
      "Lance que melhora ligeiramente a posição">>
RegressionComments ==
    <<"Erro grave! Lance que compromete seriamente a posição",
      "Erro tático importante",
      "Imprecisão que piora a posição">>

Bucket(delta) ==
    IF delta >= 5 * CentiPerPoint THEN 1
    ELSE IF delta >= 3 * CentiPerPoint THEN 2 ELSE 3

\* analyze_game has returned from the game whose evaluations were evals,
\* scanned with the default threshold
Scanned(evals) ==
    pc = "analyze_returned" /\ threshold = DefaultThreshold /\ script = evals

\* C11: the comment of every record is determined by its eval_before,
\* eval_after and delta: an improvement comment exactly when eval_after >
\* eval_before, a regression comment otherwise, of the bucket delta >= 5.0,
\* else delta >= 3.0, else the lowest.  With threshold 2.0 the evaluations
\* 0.0, 1.0, 4.5, 4.6 give exactly one record, at the second move, with delta
\* 3.5 and the improvement comment of the >= 3.0 bucket; the evaluations 3.0,
\* 0.5 give one record with delta 2.5 and the lowest regression comment.
C11_CommentByDirectionAndBucket ==
    /\ \A i \in 1..Len(critical_moves) :
          LET r == critical_moves[i] IN
          /\ r.comment \in {ImprovementComments[b] : b \in 1..3}
                 <=> r.eval_after > r.eval_before
          /\ r.comment \in {RegressionComments[b] : b \in 1..3}
                 <=> ~(r.eval_after > r.eval_before)
          /\ r.comment \in {ImprovementComments[Bucket(r.delta)],
                             RegressionComments[Bucket(r.delta)]}
    /\ Scanned(<<0, 100, 450, 460>>) =>
          /\ Len(critical_moves) = 1
          /\ critical_moves[1].move_number = 2
          /\ critical_moves[1].delta = 350
          /\ critical_moves[1].comment = ImprovementComments[2]
    /\ Scanned(<<300, 50>>) =>
          /\ Len(critical_moves) = 1
          /\ critical_moves[1].delta = 250
          /\ critical_moves[1].comment = RegressionComments[3]

\* the first of the two games has been scanned and its record made
C11_Witness ==
    /\ Scanned(<<0, 100, 450, 460>>)
    /\ Len(critical_moves) = 1
    /\ critical_moves[1].comment = "Bom lance tático que aumenta a vantagem"

====
